---------------------------- MODULE Spec2Model ----------------------------
(***************************************************************************)
(* Model of src/src/app.py: the Mergington High School activities API.     *)
(*                                                                         *)
(* The module-level list `activities` is the only program state.  The     *)
(* routes are GET /, GET /activities and POST /activities/{name}/signup;   *)
(* the file registers no DELETE route.  Python values that the code        *)
(* compares across types are tagged with their type, so that `x in list`   *)
(* and `list[key]` behave as they do in Python.  Texts (details, messages) *)
(* are sequences of words, so that "contains" is a check on the text.      *)
(*                                                                         *)
(* Spec      : requests handled one after the other, with a log of the     *)
(*             last MaxLog exchanges.                                      *)
(* SpecConc  : NumRequests signup requests in flight at once, each run     *)
(*             line by line by its own worker thread; sched records the    *)
(*             order in which requests arrived and lines were run.         *)
(***************************************************************************)
EXTENDS Integers, Sequences, FiniteSets, TLC

VARIABLES activities, log, frames, sched

vars == <<activities, log, frames, sched>>

\* ------------------------------------------------------------- bounds
MaxLog == 3

NumRequests == 2

\* Inputs of the requests: two seeded names and one unknown name; two emails.
ActivityNames == {"Basketball", "Chess Tournament", "Nonexistent Club"}

Emails == {"michael@mergington.edu", "student@mergington.edu"}

Requests == 1..NumRequests

\* ------------------------------------------------------ Python values
Str(s) == [type |-> "str", val |-> s]

Dict(d) == [type |-> "dict", val |-> d]

List(l) == [type |-> "list", val |-> l]

Text(t) == [type |-> "text", val |-> t]

None == [type |-> "none", val |-> <<>>]

\* Python ==: values of different types are never equal.
PyEq(a, b) == a.type = b.type /\ a.val = b.val

\* ------------------------------------------------- the seeded collection
Activity(id, name, category) ==
    [id |-> id, name |-> name, category |-> category, participants |-> <<>>]

SeedActivities ==
    << Activity(1, "Basketball", "sports"),
       Activity(2, "Painting Workshop", "artistic"),
       Activity(3, "Python Bootcamp", "intellectual"),
       Activity(4, "Tennis Tournament", "sports"),
       Activity(5, "Swimming Competition", "sports"),
       Activity(6, "Dance Class", "artistic"),
       Activity(7, "Sculpture Studio", "artistic"),
       Activity(8, "Machine Learning Seminar", "intellectual"),
       Activity(9, "Chess Tournament", "intellectual") >>

\* ----------------------------------------------------- list operations
\* `x in acts` where acts is a list of dicts: x == element, for some element.
ListContains_by_name(acts, x) ==
    \E i \in DOMAIN acts : PyEq(Str(acts[i].name), x)

ListContains(acts, x) ==
    \E i \in DOMAIN acts : PyEq(Dict(acts[i]), x)

\* `acts[key]` on a list: an int in range selects; anything else raises
\* (TypeError for a str key).  The result names the element by its position,
\* as the code holds a reference to the element, not a copy.
GetItem(acts, key) ==
    IF key.type = "int" /\ key.val + 1 \in DOMAIN acts
    THEN [ok |-> TRUE, index |-> key.val + 1]
    ELSE [ok |-> FALSE, index |-> 0]

\* `email in participants`
InParticipants(participants, email) ==
    \E i \in DOMAIN participants : participants[i] = email

\* ---------------------------------------------------------- responses
NoResponse == [status |-> 0, body |-> None, location |-> ""]

HTTPException(status_code, detail) ==
    [status |-> status_code, body |-> Dict([detail |-> detail]), location |-> ""]

JSONResponse(content) == [status |-> 200, body |-> content, location |-> ""]

\* An exception no handler catches: the server answers 500 in plain text.
InternalServerError ==
    [status |-> 500, body |-> Text(<<"Internal", "Server", "Error">>), location |-> ""]

RedirectResponse(url) == [status |-> 307, body |-> None, location |-> url]

ActivityNotFoundDetail == <<"Activity", "not", "found">>

AlreadySignedUpDetail ==
    <<"Student", "is", "already", "signed", "up", "for", "this", "activity">>

MethodNotAllowedDetail == <<"Method", "Not", "Allowed">>

NotFoundDetail == <<"Not", "Found">>

\* f"Signed up {email} for {activity_name}"
SignedUpMessage(email, activity_name) ==
    <<"Signed", "up", email, "for", activity_name>>

\* ------------------------------------------------- signup_for_activity
\* `if activity_name not in activities`
ActivityNotFound_inverted(acts, activity_name) ==
    ListContains(acts, Str(activity_name))

ActivityNotFound(acts, activity_name) ==
    ~ListContains(acts, Str(activity_name))

\* A handler invocation: where it is, its arguments, its local `activity`
\* (a position in the list, 0 when unset) and its response once done.
Frame(pc, activity_name, email) ==
    [pc |-> pc, activity_name |-> activity_name, email |-> email,
     activity |-> 0, resp |-> NoResponse]

PendingFrame == Frame("pending", "", "")

Raise(fr, resp) == [fr EXCEPT !.pc = "done", !.resp = resp]

\* One line of signup_for_activity, run on frame fr against the list acts.
signup_step(fr, acts) ==
    CASE fr.pc = "L50" ->
           [fr |-> IF ActivityNotFound(acts, fr.activity_name)
                   THEN Raise(fr, HTTPException(404, ActivityNotFoundDetail))
                   ELSE [fr EXCEPT !.pc = "L54"],
            acts |-> acts]
      [] fr.pc = "L54" ->
           LET got == GetItem(acts, Str(fr.activity_name)) IN
           [fr |-> IF ~got.ok
                   THEN Raise(fr, InternalServerError)
                   ELSE IF InParticipants(acts[got.index].participants, fr.email)
                   THEN Raise(fr, HTTPException(400, AlreadySignedUpDetail))
                   ELSE [fr EXCEPT !.pc = "L58"],
            acts |-> acts]
      [] fr.pc = "L58" ->
           LET got == GetItem(acts, Str(fr.activity_name)) IN
           [fr |-> IF ~got.ok
                   THEN Raise(fr, InternalServerError)
                   ELSE [fr EXCEPT !.pc = "L61", !.activity = got.index],
            acts |-> acts]
      [] fr.pc = "L61" ->
           [fr |-> Raise(fr, JSONResponse(Dict(
                       [message |-> SignedUpMessage(fr.email, fr.activity_name)]))),
            acts |-> [acts EXCEPT ![fr.activity].participants =
                          Append(@, fr.email)]]
      [] OTHER -> [fr |-> fr, acts |-> acts]

RECURSIVE run_to_completion(_)
run_to_completion(st) ==
    IF st.fr.pc = "done" THEN st ELSE run_to_completion(signup_step(st.fr, st.acts))

\* A handler that finds the activity by its name and appends the email
\* without validating anything.
signup_unvalidated(acts, activity_name, email) ==
    [resp |-> JSONResponse(Dict([message |-> SignedUpMessage(email, activity_name)])),
     acts |-> [i \in DOMAIN acts |->
                 IF acts[i].name = activity_name
                 THEN [acts[i] EXCEPT !.participants = Append(@, email)]
                 ELSE acts[i]]]

\* The whole handler, run without interruption.
signup_for_activity(acts, activity_name, email) ==
    LET st == run_to_completion(
                  [fr |-> Frame("L50", activity_name, email), acts |-> acts])
    IN [resp |-> st.fr.resp, acts |-> st.acts]

\* ------------------------------------------------------ other handlers
root == RedirectResponse("/static/index.html")

get_activities(acts) == JSONResponse(List(acts))

\* ------------------------------------------------------------- routing
RootPath == "/"

ActivitiesPath == "/activities"

SignupPath == "/activities/{activity_name}/signup"

Routes ==
    { <<"GET", RootPath>>, <<"GET", ActivitiesPath>>, <<"POST", SignupPath>> }

\* The router: the handler of the route that matches method and path; 405
\* when only the path matches a route; 404 when nothing does.
HandleRequest(acts, method, path, activity_name, email) ==
    IF <<method, path>> \in Routes
    THEN CASE path = RootPath -> [resp |-> root, acts |-> acts]
           [] path = ActivitiesPath -> [resp |-> get_activities(acts), acts |-> acts]
           [] path = SignupPath -> signup_for_activity(acts, activity_name, email)
    ELSE IF \E r \in Routes : r[2] = path
    THEN [resp |-> HTTPException(405, MethodNotAllowedDetail), acts |-> acts]
    ELSE [resp |-> HTTPException(404, NotFoundDetail), acts |-> acts]

\* ------------------------------------------------------------- actions
Init ==
    /\ activities = SeedActivities
    /\ log = <<>>
    /\ frames = [r \in Requests |-> PendingFrame]
    /\ sched = <<>>

\* The client's record of the last MaxLog exchanges.
Logged(entry) ==
    LET l == Append(log, entry) IN
    IF Len(l) > MaxLog THEN Tail(l) ELSE l

\* One exchange as the client sees it: the request, the response, and the
\* collection before and after.
Entry(method, path, activity_name, email, out) ==
    [method |-> method, path |-> path,
     activity_name |-> activity_name, email |-> email,
     resp |-> out.resp, before |-> activities, after |-> out.acts]

GetRoot ==
    LET out == HandleRequest(activities, "GET", RootPath, "", "") IN
    /\ activities' = out.acts
    /\ log' = Logged(Entry("GET", RootPath, "", "", out))
    /\ UNCHANGED <<frames, sched>>

ListActivities ==
    LET out == HandleRequest(activities, "GET", ActivitiesPath, "", "") IN
    /\ activities' = out.acts
    /\ log' = Logged(Entry("GET", ActivitiesPath, "", "", out))
    /\ UNCHANGED <<frames, sched>>

PostSignup ==
    \E n \in ActivityNames, e \in Emails :
        LET out == HandleRequest(activities, "POST", SignupPath, n, e) IN
        /\ activities' = out.acts
        /\ log' = Logged(Entry("POST", SignupPath, n, e, out))
        /\ UNCHANGED <<frames, sched>>

DeleteSignup ==
    \E n \in ActivityNames, e \in Emails :
        LET out == HandleRequest(activities, "DELETE", SignupPath, n, e) IN
        /\ activities' = out.acts
        /\ log' = Logged(Entry("DELETE", SignupPath, n, e, out))
        /\ UNCHANGED <<frames, sched>>

Next == GetRoot \/ ListActivities \/ PostSignup \/ DeleteSignup

Spec == Init /\ [][Next]_vars

\* Concurrent signups: a request arrives and a worker thread starts the
\* handler at its first line.
Receive ==
    \E r \in Requests, n \in ActivityNames, e \in Emails :
        /\ frames[r].pc = "pending"
        /\ frames' = [frames EXCEPT ![r] = Frame("L50", n, e)]
        /\ sched' = Append(sched, [r |-> r, op |-> "recv"])
        /\ UNCHANGED <<activities, log>>

\* A worker thread runs one line of its handler.
ThreadStep ==
    \E r \in Requests :
        /\ frames[r].pc \notin {"pending", "done"}
        /\ LET out == signup_step(frames[r], activities) IN
             /\ frames' = [frames EXCEPT ![r] = out.fr]
             /\ activities' = out.acts
        /\ sched' = Append(sched, [r |-> r, op |-> "step"])
        /\ UNCHANGED log

NextConc == Receive \/ ThreadStep

SpecConc == Init /\ [][NextConc]_vars


\* --------------------------------------------------------------------
\* Properties
\* --------------------------------------------------------------------
HasActivityNamed(acts, name) == \E i \in DOMAIN acts : acts[i].name = name

ParticipantsOf(acts, name) ==
    acts[CHOOSE i \in DOMAIN acts : acts[i].name = name].participants

Count(seq, x) == Cardinality({i \in DOMAIN seq : seq[i] = x})

Without(seq, x) == SelectSeq(seq, LAMBDA y : y # x)

\* The words of phrase occur in text, consecutively and in order.
ContainsWords(text, phrase) ==
    \E i \in 0..(Len(text) - Len(phrase)) :
        SubSeq(text, i + 1, i + Len(phrase)) = phrase

Detail(resp) ==
    IF resp.body.type = "dict" /\ "detail" \in DOMAIN resp.body.val
    THEN resp.body.val.detail ELSE <<>>

Message(resp) ==
    IF resp.body.type = "dict" /\ "message" \in DOMAIN resp.body.val
    THEN resp.body.val.message ELSE <<>>

IsSignup(e) == e.method = "POST" /\ e.path = SignupPath

IsUnregister(e) == e.method = "DELETE" /\ e.path = SignupPath

IsList(e) == e.method = "GET" /\ e.path = ActivitiesPath

SameTarget(e, f) == e.activity_name = f.activity_name /\ e.email = f.email

Entries == {log[i] : i \in DOMAIN log}

\* C1: signing up an email that is not a participant of an existing activity
\* returns 200 with a message containing "Signed up" and the email, and the
\* email is appended at the end of that activity's participants.
C1_SignupAppends ==
    \A e \in Entries :
        (/\ IsSignup(e)
         /\ HasActivityNamed(e.before, e.activity_name)
         /\ ~InParticipants(ParticipantsOf(e.before, e.activity_name), e.email))
        => /\ e.resp.status = 200
           /\ ContainsWords(Message(e.resp), <<"Signed", "up">>)
           /\ ContainsWords(Message(e.resp), <<e.email>>)
           /\ ParticipantsOf(e.after, e.activity_name) =
                  Append(ParticipantsOf(e.before, e.activity_name), e.email)

C3_UnknownActivity404 ==
    \A e \in Entries :
        (IsSignup(e) /\ ~HasActivityNamed(e.before, e.activity_name))
        => /\ e.resp.status = 404
           /\ Detail(e.resp) = <<"Activity", "not", "found">>
           /\ e.after = e.before

C3_Witness ==
    \E e \in Entries :
        /\ IsSignup(e)
        /\ ~HasActivityNamed(e.before, e.activity_name)
        /\ e.resp.status = 404

C5_UnregisterAbsent404 ==
    \A e \in Entries :
        (/\ IsUnregister(e)
         /\ HasActivityNamed(e.before, e.activity_name)
         /\ ~InParticipants(ParticipantsOf(e.before, e.activity_name), e.email))
        => /\ e.resp.status = 404
           /\ ContainsWords(Detail(e.resp), <<"not", "signed", "up">>)
           /\ e.after = e.before

\* C6: signup, unregister, signup of one email for one existing activity it
\* was not a participant of: each step returns 200 and the email is a
\* participant at the end.
C6_RoundTrip ==
    \A i \in 1..(Len(log) - 2) :
        (/\ IsSignup(log[i]) /\ IsUnregister(log[i + 1]) /\ IsSignup(log[i + 2])
         /\ SameTarget(log[i], log[i + 1]) /\ SameTarget(log[i], log[i + 2])
         /\ HasActivityNamed(log[i].before, log[i].activity_name)
         /\ ~InParticipants(ParticipantsOf(log[i].before, log[i].activity_name),
                            log[i].email))
        => /\ \A k \in {i, i + 1, i + 2} : log[k].resp.status = 200
           /\ InParticipants(ParticipantsOf(log[i + 2].after, log[i].activity_name),
                             log[i].email)

\* C7: under sequential requests, no email appears twice among the
\* participants of an activity.
C7_UniqueParticipants ==
    \A i \in DOMAIN activities :
        \A j, k \in DOMAIN activities[i].participants :
            j # k => activities[i].participants[j] # activities[i].participants[k]

\* Two signups of one email for one existing activity have been handled.
C7_Witness ==
    \E i, j \in DOMAIN log :
        /\ i < j
        /\ IsSignup(log[i]) /\ IsSignup(log[j])
        /\ SameTarget(log[i], log[j])
        /\ HasActivityNamed(activities, log[i].activity_name)

ActivityFields == {"description", "schedule", "max_participants", "participants"}

\* C8: GET /activities returns 200 and a mapping keyed by activity name in
\* which every activity of the collection has the fields description,
\* schedule, max_participants and a list of participants, and the collection
\* is unchanged.
C8_ListIsMappingByName ==
    \A e \in Entries :
        IsList(e)
        => /\ e.resp.status = 200
           /\ e.after = e.before
           /\ e.resp.body.type = "dict"
           /\ \A i \in DOMAIN e.before :
                 /\ e.before[i].name \in DOMAIN e.resp.body.val
                 /\ ActivityFields \subseteq DOMAIN e.resp.body.val[e.before[i].name]

\* The order in which requests a and b had their lines run.
StepsOf(a, b) == SelectSeq(sched, LAMBDA x : x.op = "step" /\ x.r \in {a, b})

\* Requests a and b both arrived before any line of either ran, and from then
\* on their lines ran in turn: each check of one ran before the append of
\* the other.
Interleaved(a, b) ==
    LET both == SelectSeq(sched, LAMBDA x : x.r \in {a, b}) IN
    /\ Len(both) >= 2 /\ both[1].op = "recv" /\ both[2].op = "recv"
    /\ \A i \in 1..(Len(StepsOf(a, b)) - 1) : StepsOf(a, b)[i].r # StepsOf(a, b)[i + 1].r

\* C9: two signups of one email for one existing activity whose lines
\* interleave between the membership check and the append both succeed and
\* leave the email in the participants twice.
C9_InterleavedSignupsDuplicate ==
    \A a, b \in Requests :
        (/\ a # b
         /\ frames[a].pc = "done" /\ frames[b].pc = "done"
         /\ frames[a].activity_name = frames[b].activity_name
         /\ frames[a].email = frames[b].email
         /\ HasActivityNamed(activities, frames[a].activity_name)
         /\ Interleaved(a, b))
        => /\ frames[a].resp.status = 200
           /\ frames[b].resp.status = 200
           /\ Count(ParticipantsOf(activities, frames[a].activity_name),
                    frames[a].email) = 2

=============================================================================
